---- MODULE Spec2Model ----
(***************************************************************************)
(* Taxonomy Wizard: the delimited-name validation query, the batch         *)
(* protocol of the Sheets add-ons (flatten / unflatten) and the retrying   *)
(* transport (submitRequest).                                              *)
(*                                                                         *)
(* Text is modelled as a sequence of pieces: a name is a sequence of       *)
(* one-character strings, a message is a sequence of literal template      *)
(* pieces and name characters, a line break is the piece "\n".             *)
(***************************************************************************)
EXTENDS Integers, Sequences, FiniteSets, TLC

VARIABLES
  spec,           \* the taxonomy spec the query template is rendered for
  entity_names,   \* @entity_names: the batch of names of the last query
  validation,     \* rows of the Validation CTE of the last query
  results         \* rows of the final SELECT: [name, validation_message]

vvars == <<spec, entity_names, validation, results>>

VARIABLES
  version,        \* which copy of submitRequest the deployment runs
  hasTestSheet,   \* the spreadsheet has a sheet named TEST
  flags,          \* FLAGS: the global, mutable configuration flags
  pc,             \* where the running submitRequest call is
  n,              \* the retry loop's counter
  attempts,       \* what each UrlFetchApp.fetch of the call met, in order
  sleeps,         \* the Utilities.sleep delays of the call (ms), in order
  response,       \* the local variable response
  outcome,        \* how the call ended
  deployed,       \* FLAGS as the deployment's flags file set them
  entry,          \* the function that made the running call
  options,        \* the options argument of the running call
  request,        \* the url and headers the call built for fetch
  console,        \* the lines the call wrote with console.log
  written           \* the written of sheet TEST the call wrote

svars == <<version, hasTestSheet, flags, pc, n, attempts, sleeps, response, outcome,
           deployed, entry, options, request, console, written>>

VARIABLES
  client,         \* which add-on's batch functions run
  values,         \* range.getValues(): the 2d array of the selection
  units,          \* what flattening values gave
  matrixed        \* what unflattening gave

bvars == <<client, values, units, matrixed>>

VARIABLES
  handler,        \* the add-on callback the user runs on the selection
  apc,            \* where that callback is: idle, returned or threw
  requests,       \* the submitRequest calls the callback made
  flat_results,   \* the results list of the service's response
  notes,          \* the notes the callback set on its range
  backgrounds,    \* the background the callback gave each cell of its range
  card            \* the card the callback returned

avars == <<handler, apc, requests, flat_results, notes, backgrounds, card>>

VARIABLES
  sheets,         \* the configurator's sheets: key row and filter column of each
  payload         \* the payload generateAllConfigData built

cvars == <<sheets, payload>>

VARIABLES
  userProperties, \* PropertiesService.getUserProperties() of the add-on's user
  lastSpecs,      \* the specs of the last storeSpecNamesAsUserProperties call
  specNames       \* what the last card was built from

uvars == <<userProperties, lastSpecs, specNames>>

xvars == <<cvars, uvars>>

vars == <<spec, entity_names, validation, results,
          version, hasTestSheet, flags, pc, n, attempts, sleeps, response, outcome,
          deployed, entry, options, request, console, written,
          client, values, units, matrixed,
          handler, apc, requests, flat_results, notes, backgrounds, card,
          sheets, payload, userProperties, lastSpecs, specNames>>

-----------------------------------------------------------------------------
(* Bounds of the model.                                                    *)

MaxLen == 4      \* longest name drawn
MaxDims == 3     \* most dimensions in a spec
MaxCells == 4    \* most cells in a grid
MaxBatch == 2    \* most names in a batch of several names
MaxSpecs == 3    \* most spec sets in a list_specs response

-----------------------------------------------------------------------------
(* SQL values: a STRING or NULL.                                           *)

NULL == [null |-> TRUE, s |-> <<>>]
Str(s) == [null |-> FALSE, s |-> s]

Alphabet == {"a", "_", "-"}

RECURSIVE SeqsUpTo(_, _)
SeqsUpTo(S, len) ==
  IF len = 0 THEN {<<>>}
  ELSE LET shorter == SeqsUpTo(S, len - 1)
       IN shorter \cup {Append(s, x) : s \in {t \in shorter : Len(t) = len - 1}, x \in S}

Names == SeqsUpTo(Alphabet, MaxLen)

-----------------------------------------------------------------------------
(* Spec model: fields, dimensions.  A dictionary table is a sequence of    *)
(* rows, each an id.                                                       *)

Fields ==
  [yyyyq |-> [name |-> "yyyyq", is_freeform_text |-> FALSE,
              table |-> << <<"a">> >>],
   fandom |-> [name |-> "fandom", is_freeform_text |-> FALSE,
               table |-> << <<"a">>, <<"a", "a">>, <<"a", "a">> >>],
   campaign_type |-> [name |-> "campaign_type", is_freeform_text |-> FALSE,
                      table |-> << >>],
   freeform |-> [name |-> "freeform", is_freeform_text |-> TRUE,
                 table |-> << >>]]

DimensionChoices ==
  { [field_spec |-> Fields.yyyyq, end_delimiter |-> <<"_">>],
    [field_spec |-> Fields.fandom, end_delimiter |-> <<"-">>],
    [field_spec |-> Fields.campaign_type, end_delimiter |-> <<"_">>],
    [field_spec |-> Fields.freeform, end_delimiter |-> <<"-">>] }

\* dimensions of a spec: indices contiguous 1..N, the index is the position
Specs == SeqsUpTo(DimensionChoices, MaxDims) \ {<<>>}

requires_crossjoin_validation(dim) == ~dim.field_spec.is_freeform_text

-----------------------------------------------------------------------------
(* Segmentation.  The regular expressions of a dimension are rendered by   *)
(* the query generator; the operators below follow the positional          *)
(* algorithm the specification gives for them: a segment runs from the end *)
(* of the previous dimension's delimiter to the first occurrence of this   *)
(* dimension's delimiter; the delimiter of the final dimension is not      *)
(* required; an empty freeform segment counts as missing; the extra data   *)
(* is what follows the final dimension's delimiter.                        *)

\* first position >= from where delim occurs in name, 0 when there is none
FindDelim(name, from, delim) ==
  LET hits == {p \in from..(Len(name) - Len(delim) + 1) :
                 SubSeq(name, p, p + Len(delim) - 1) = delim}
  IN IF hits = {} THEN 0 ELSE CHOOSE p \in hits : \A q \in hits : p <= q

\* where segment i starts (i = N + 1: the extra data), 0 when it cannot be located
RECURSIVE SegmentStart(_, _, _)
SegmentStart(dims, name, i) ==
  IF i = 1 THEN 1
  ELSE LET s == SegmentStart(dims, name, i - 1)
           p == IF s = 0 THEN 0 ELSE FindDelim(name, s, dims[i - 1].end_delimiter)
       IN IF p = 0 THEN 0 ELSE p + Len(dims[i - 1].end_delimiter)

\* REGEXP_EXTRACT(name, dim.regex_match_expression)
regex_match_expression(dims, name, i) ==
  LET s == SegmentStart(dims, name, i)
      p == IF s = 0 THEN 0 ELSE FindDelim(name, s, dims[i].end_delimiter)
      raw == IF s = 0 THEN NULL
             ELSE IF p # 0 THEN Str(SubSeq(name, s, p - 1))
             ELSE IF i = Len(dims) /\ s <= Len(name)
                    THEN Str(SubSeq(name, s, Len(name)))
             ELSE NULL
  IN IF dims[i].field_spec.is_freeform_text /\ raw = Str(<<>>) THEN NULL ELSE raw

\* REGEXP_EXTRACT(name, dim.extra_data_regex), of the last dimension
extra_data_regex(dims, name) ==
  LET s == SegmentStart(dims, name, Len(dims) + 1)
  IN IF s = 0 THEN NULL ELSE Str(SubSeq(name, s, Len(name)))

-----------------------------------------------------------------------------
(* The rendered query (delimited_validator.sql).  A table or CTE is a      *)
(* sequence of rows.                                                       *)

RECURSIVE Replicate(_, _)
Replicate(row, count) ==
  IF count = 0 THEN <<>> ELSE <<row>> \o Replicate(row, count - 1)

\* the rows of a sequence of row lists, in order
RECURSIVE Concat(_)
Concat(lists) ==
  IF lists = <<>> THEN <<>> ELSE Head(lists) \o Concat(Tail(lists))

RECURSIVE Product(_)
Product(ns) == IF ns = <<>> THEN 1 ELSE Head(ns) * Product(Tail(ns))

\* FROM @entity_names AS name CROSS JOIN `table` AS D_i, for each dimension
\* that requires it: one row per combination of dictionary rows
CrossJoinRows(dims) ==
  Product([i \in 1..Len(dims) |->
             IF requires_crossjoin_validation(dims[i])
               THEN Len(dims[i].field_spec.table) ELSE 1])

DimensionsRow(dims, name) ==
  [name |-> name,
   d |-> [i \in 1..Len(dims) |-> regex_match_expression(dims, name, i)],
   d_extra_data |-> extra_data_regex(dims, name)]

Dimensions(dims, names) ==
  LET RowsOf(name) == Replicate(DimensionsRow(dims, name), CrossJoinRows(dims))
  IN Concat([k \in 1..Len(names) |-> RowsOf(names[k])])

\* MAX(d_i) over the whole batch
NullChecker_unpartitioned(dims, D) ==
  [k \in 1..Len(D) |->
     [name |-> D[k].name, d |-> D[k].d, d_extra_data |-> D[k].d_extra_data,
      nullcheck_null |->
        {i \in 1..Len(dims) :
           /\ requires_crossjoin_validation(dims[i])
           /\ \A j \in 1..Len(D) : D[j].d[i].null}]]

\* MAX(d_i) OVER (PARTITION BY D.name) AS d_i_nullcheck; the query only ever
\* asks whether it IS NULL: nullcheck_null holds the i for which it is
NullChecker(dims, D) ==
  LET Partition(row) == {k \in 1..Len(D) : D[k].name = row.name}
      Checked(row) ==
        [name |-> row.name, d |-> row.d, d_extra_data |-> row.d_extra_data,
         nullcheck_null |->
           {i \in 1..Len(dims) :
              /\ requires_crossjoin_validation(dims[i])
              /\ \A k \in Partition(row) : D[k].d[i].null}]
  IN [k \in 1..Len(D) |-> Checked(D[k])]

\* a join that matches no dictionary row
JoinMatches_none(dim, d_i) == 0

\* rows of `table` AS T_i with T_i.id = D.d_i (NULL equals nothing)
JoinMatches(dim, d_i) ==
  IF d_i.null THEN 0
  ELSE Cardinality({k \in 1..Len(dim.field_spec.table) :
                      dim.field_spec.table[k] = d_i.s})

\* the message naming the next position
MissingValue_next(index) == <<"Missing value in position ", ToString(index + 1), ".">>

MissingValue(index) == <<"Missing value in position ", ToString(index), ".">>

InvalidValue(index, field_name, d_i) ==
  <<"Invalid value \"">> \o d_i
    \o <<"\" in position ", ToString(index), " (field \"", field_name, "\").">>

UnexpectedData(d_extra_data) ==
  <<"Unexpected data at end of string: \"">> \o d_extra_data \o <<"\".">>

\* an empty segment taken as a missing one
d_validation_empty_missing(dim, index, d_i) ==
  IF d_i.null \/ d_i.s = <<>>
    THEN Str(MissingValue(index))
  ELSE IF ~dim.field_spec.is_freeform_text /\ JoinMatches(dim, d_i) = 0
    THEN Str(InvalidValue(index, dim.field_spec.name, d_i.s))
  ELSE NULL

\* the dictionary branch rendered for freeform fields too
d_validation_all_joined(dim, index, d_i) ==
  IF d_i.null
    THEN Str(MissingValue(index))
  ELSE IF JoinMatches(dim, d_i) = 0
    THEN Str(InvalidValue(index, dim.field_spec.name, d_i.s))
  ELSE NULL

\* the CASE without its first branch
d_validation_no_missing(dim, index, d_i) ==
  IF ~d_i.null /\ ~dim.field_spec.is_freeform_text /\ JoinMatches(dim, d_i) = 0
    THEN Str(InvalidValue(index, dim.field_spec.name, d_i.s))
  ELSE NULL

\* the CASE without its dictionary branch
d_validation_unjoined(dim, index, d_i) ==
  IF d_i.null THEN Str(MissingValue(index)) ELSE NULL

\* CASE WHEN d_i IS NULL ... WHEN T_i.id IS NULL ... ELSE NULL END
d_validation(dim, index, d_i) ==
  IF d_i.null
    THEN Str(MissingValue(index))
  ELSE IF ~dim.field_spec.is_freeform_text /\ JoinMatches(dim, d_i) = 0
    THEN Str(InvalidValue(index, dim.field_spec.name, d_i.s))
  ELSE NULL

\* IF(IFNULL(D.d_extra_data, '') != '', CONCAT(...), CAST(NULL AS STRING))
d_extra_data_validation(d_extra_data) ==
  IF (IF d_extra_data.null THEN <<>> ELSE d_extra_data.s) # <<>>
    THEN Str(UnexpectedData(d_extra_data.s))
  ELSE NULL

\* WHERE TRUE AND (D.d_i IS NOT NULL OR D.d_i_nullcheck IS NULL) ...
ValidationWhere(dims, row) ==
  \A i \in 1..Len(dims) :
    requires_crossjoin_validation(dims[i]) =>
      (~row.d[i].null \/ i \in row.nullcheck_null)

\* a LEFT OUTER JOIN keeps an unmatched row once and a matched row once per match
LeftJoinRows(dims, row) ==
  Product([i \in 1..Len(dims) |->
             IF dims[i].field_spec.is_freeform_text THEN 1
             ELSE IF JoinMatches(dims[i], row.d[i]) = 0 THEN 1
             ELSE JoinMatches(dims[i], row.d[i])])

Validation(dims, NC) ==
  LET Selected(row) ==
        [name |-> row.name,
         d_validation |->
           [i \in 1..Len(dims) |-> d_validation(dims[i], i, row.d[i])],
         d_extra_data_validation |-> d_extra_data_validation(row.d_extra_data)]
      RowsOf(row) ==
        IF ValidationWhere(dims, row)
          THEN Replicate(Selected(row), LeftJoinRows(dims, row))
          ELSE <<>>
  IN Concat([k \in 1..Len(NC) |-> RowsOf(NC[k])])

\* NULL elements joined as empty strings
RECURSIVE ARRAY_TO_STRING_nulls(_, _)
ARRAY_TO_STRING_nulls(array, delimiter) ==
  IF array = <<>> THEN <<>>
  ELSE (IF Head(array).null THEN <<>> ELSE Head(array).s)
         \o (IF Len(array) > 1
               THEN <<delimiter>> \o ARRAY_TO_STRING_nulls(Tail(array), delimiter)
               ELSE <<>>)

\* ARRAY_TO_STRING(array, delimiter): NULL elements are left out
RECURSIVE ARRAY_TO_STRING(_, _)
ARRAY_TO_STRING(array, delimiter) ==
  IF array = <<>> THEN <<>>
  ELSE IF Head(array).null THEN ARRAY_TO_STRING(Tail(array), delimiter)
  ELSE LET rest == ARRAY_TO_STRING(Tail(array), delimiter)
           more == \E k \in 2..Len(array) : ~array[k].null
       IN Head(array).s \o (IF more THEN <<delimiter>> \o rest ELSE <<>>)

\* the extra data message placed first
validation_message_extra_first(row) ==
  ARRAY_TO_STRING(<<row.d_extra_data_validation>> \o row.d_validation, "\n")

validation_message(row) ==
  ARRAY_TO_STRING(Append(row.d_validation, row.d_extra_data_validation), "\n")

FinalSelect(V) ==
  [k \in 1..Len(V) |->
     [name |-> V[k].name, validation_message |-> validation_message(V[k])]]

-----------------------------------------------------------------------------
(* submitRequest: the transport of the Apps Script clients.  The           *)
(* repository holds four copies of it.                                     *)

NUM_RETRIES == 3
HTTP_STATUS_MIN_ERROR_VALUE_ == 400
HTTP_STATUS_MAX_ERROR_VALUE_ == 599

\* FLAGS.SHOW_HTTP_EXCEPTIONS: set in every flags file, assigned nowhere else
SHOW_HTTP_EXCEPTIONS == TRUE

Versions == {"part_003", "Code_js", "flags_js_233", "flags_js_509"}

HasBreak_never(v) == FALSE

\* the copies whose retry loop leaves with `break` once fetch has returned
HasBreak(v) == v \in {"part_003", "flags_js_233"}

\* the flags as the deployment's flags file sets them
InitialFlags(v) ==
  IF v \in {"flags_js_233", "flags_js_509"}
    THEN [SUBMIT_REQUESTS |-> TRUE, TEST_MODE |-> TRUE,
          LOG_REQUESTS |-> FALSE, LOG_SHEET |-> ""]
    ELSE [SUBMIT_REQUESTS |-> TRUE, TEST_MODE |-> FALSE,
          LOG_REQUESTS |-> TRUE, LOG_SHEET |-> ""]

\* the flags a deployment can run with: the flags file as it is in the
\* repository, and for the Sheets add-on the other settings of its two
\* logging flags
DeployedFlags(v) ==
  {InitialFlags(v)} \cup
  (IF v = "part_003"
     THEN {[InitialFlags(v) EXCEPT !.LOG_REQUESTS = b, !.LOG_SHEET = s] :
             b \in BOOLEAN, s \in {"", "TEST"}}
     ELSE {})

\* what the endpoint can answer to one fetch
TransportFailure == [kind |-> "exception", code |-> 0, body |-> "none"]
HttpResponse(code, body) == [kind |-> "response", code |-> code, body |-> body]
Answers ==
  {TransportFailure}
    \cup {HttpResponse(code, body) :
            code \in {200, 204, HTTP_STATUS_MIN_ERROR_VALUE_, HTTP_STATUS_MAX_ERROR_VALUE_},
            body \in {"json", "json_status_500", "text"}}

IsErrorStatus(code) ==
  code >= HTTP_STATUS_MIN_ERROR_VALUE_ /\ code <= HTTP_STATUS_MAX_ERROR_VALUE_

\* UrlFetchApp.fetch(url, options) throws: on a transport failure, and on a
\* failure status unless options.muteHttpExceptions
FetchThrows(answer, muteHttpExceptions) ==
  \/ answer.kind = "exception"
  \/ ~muteHttpExceptions /\ IsErrorStatus(answer.code)

\* Math.round(Math.random() * 1000)
JitterChoices == {0, 500, 1000}

\* a delay growing by one second per attempt
BackoffDelay_linear(k, jitter) == (k + 1) * 1000 + jitter

\* (Math.pow(2, n) * 1000) + jitter
BackoffDelay(k, jitter) == (2 ^ k) * 1000 + jitter

LoopCondition_inclusive(k) == k <= NUM_RETRIES

\* for (var n = 0; n < NUM_RETRIES; n++)
LoopCondition(k) == k < NUM_RETRIES

\* if (n == NUM_RETRIES) throw e;
LastAttempt(k) == k = NUM_RETRIES

NoResponse == [defined |-> FALSE, code |-> 0, body |-> "none"]

Outcome(kind, what, code, body, attempt) ==
  [kind |-> kind, what |-> what, code |-> code, body |-> body, attempt |-> attempt]

NoOutcome == Outcome("none", "none", 0, "none", 0)
Threw(what) == Outcome("throw", what, 0, "none", 0)
\* the exception fetch raised in the attempt-th attempt of the call
ThrewFetchException(attempt) == Outcome("throw", "fetch exception", 0, "none", attempt)
\* 'Error with request. Response Code ' + code + ': ' + body
ThrewErrorWithRequest(code, body) == Outcome("throw", "Error with request", code, body, 0)
Returned(what, code) == Outcome("return", what, code, "none", 0)

\* response.status of the object submitRequest returned: 200 in the stub
\* { 'status': 200, 'content': 'Ok' }, 500 in a parsed body {"status": 500},
\* undefined (0 here) in TEST_RESPONSE and in a parsed body without it
StatusProperty(o) ==
  IF o.what = "Ok" THEN 200
  ELSE IF o.what = "parsed_status_500" THEN 500
  ELSE 0

\* what generateAllConfigData (and test_create_spec_set) ends with, given how
\* its submitRequest call ended: the exception is not caught
generateAllConfigData(o) ==
  IF o.kind = "throw" THEN "uncaught"
  ELSE IF /\ StatusProperty(o) >= HTTP_STATUS_MIN_ERROR_VALUE_
          /\ StatusProperty(o) <= HTTP_STATUS_MAX_ERROR_VALUE_
    THEN "false"
  ELSE "true"

\* entry points: a caller of the client, or one of the test functions, which
\* assign FLAGS before calling
FlagsSetBy(e, f) ==
  IF e = "test_validateNamesInCells"
    THEN [f EXCEPT !.SUBMIT_REQUESTS = FALSE, !.TEST_MODE = TRUE]
  ELSE IF e = "test_create_spec_set"
    THEN [f EXCEPT !.TEST_MODE = TRUE]
  ELSE f

EntriesOf(v) ==
  IF v = "Code_js" THEN {"caller", "test_validateNamesInCells"}
  ELSE IF v = "flags_js_233" THEN {"caller", "test_create_spec_set"}
  ELSE {"caller"}

\* queryParameters as the entry passes it: test_create_spec_set passes null
QueryParametersOf(e) == IF e = "test_create_spec_set" THEN "null" ELSE "object"

\* the sheet write of the copies that test FLAGS.TEST_MODE:
\* getSheetByName("TEST").getRange("A1") with no sheet TEST is a TypeError
TestSheetWriteThrows(v, f, sheet) == v # "part_003" /\ f.TEST_MODE /\ ~sheet

\* what the call returns when FLAGS.SUBMIT_REQUESTS is false
StubResponse(v, f) ==
  IF v # "part_003" /\ f.TEST_MODE THEN Returned("TEST_RESPONSE", 0)
  ELSE Returned("Ok", 200)

\* ScriptApp.getIdentityToken()
IdentityToken == "identity_token"

\* header values and logged lines are texts: sequences of pieces
BearerCredential == <<"Bearer ", IdentityToken>>

CallerCredential == <<"Basic ", "caller_secret">>

NoHeaders == [name \in {} |-> <<>>]

\* the options argument: null (what every caller in the repository passes),
\* an object without headers, or an object with headers of the caller's own
NoOptions == [null |-> TRUE, hasHeaders |-> FALSE, headers |-> NoHeaders]

OptionsArguments ==
  { NoOptions,
    [null |-> FALSE, hasHeaders |-> FALSE, headers |-> NoHeaders],
    [null |-> FALSE, hasHeaders |-> TRUE,
     headers |-> ("Authorization" :> CallerCredential) @@ ("X-Caller" :> <<"x">>)] }

\* if (!options) options = {}; if (!options.headers) options.headers = {}
OptionsHeaders(o) == IF o.null \/ ~o.hasHeaders THEN NoHeaders ELSE o.headers

\* a header assignment that leaves a header the object already has
SetHeader_keep(headers, name, value) ==
  IF name \in DOMAIN headers THEN headers ELSE (name :> value) @@ headers

\* options.headers[name] = value
SetHeader(headers, name, value) == (name :> value) @@ headers

\* the headers of the request after the two assignments of submitRequest
RequestHeaders(o) ==
  SetHeader(SetHeader(OptionsHeaders(o), "Content-Type", <<"application/json">>),
            "Authorization", BearerCredential)

\* Object.entries(obj).map(...).join('&') for the parameters a caller passes;
\* it is not reached for null, where Object.entries throws
objectToQueryParams(q) == IF q = "object" THEN <<"action", "=", "validate">> ELSE <<>>

\* endpoint + '?' + objectToQueryParams(queryParameters)
Url(q) == <<"endpoint", "?">> \o objectToQueryParams(q)

NoRequest == [built |-> FALSE, url |-> <<>>, headers |-> NoHeaders]

Request(q, o) == [built |-> TRUE, url |-> Url(q), headers |-> RequestHeaders(o)]

HeaderText(headers, name) ==
  IF name \in DOMAIN headers THEN <<name>> \o headers[name] ELSE <<>>

\* JSON.stringify(options): the headers with their values, then the rest
JSON_stringify(headers) ==
  <<"headers">> \o HeaderText(headers, "Authorization")
    \o HeaderText(headers, "X-Caller") \o HeaderText(headers, "Content-Type")
    \o <<"method", "muteHttpExceptions", "payload">>

\* the three console.log lines about a request
RequestLog(r) ==
  << <<"Request URL: ">> \o r.url,
     <<"Request Options: ">> \o JSON_stringify(r.headers),
     <<"Request Payload:", "payload">> >>

\* what submitRequest logs before the loop: the lines under FLAGS.LOG_REQUESTS,
\* and in the Sheets add-on the same lines again under no condition
ConsoleLines(v, f, r) ==
  (IF f.LOG_REQUESTS THEN RequestLog(r) ELSE <<>>)
    \o (IF v = "part_003" THEN RequestLog(r) ELSE <<>>)

NoCells == [cell \in {} |-> <<>>]

\* what submitRequest writes to sheet TEST before the loop
SheetWrites(v, f, sheet, r) ==
  IF v = "part_003"
    THEN IF f.LOG_SHEET # "" /\ sheet
           THEN ("A1" :> <<"payload">>) @@ ("A2" :> r.headers["Authorization"])
                  @@ ("A3" :> <<"BOOP!">>)
           ELSE NoCells
  ELSE IF f.TEST_MODE /\ sheet THEN ("A1" :> <<"payload">>)
  ELSE NoCells

SIdle ==
  /\ pc = "idle"
  /\ n = 0
  /\ attempts = <<>>
  /\ sleeps = <<>>
  /\ response = NoResponse
  /\ outcome = NoOutcome
  /\ entry = "none"
  /\ options = NoOptions
  /\ request = NoRequest
  /\ console = <<>>
  /\ written = NoCells

\* submitRequest up to the retry loop
SubmitRequest ==
  /\ pc = "idle"
  /\ \E e \in EntriesOf(version), o \in OptionsArguments :
       LET f == FlagsSetBy(e, flags)
           r == Request(QueryParametersOf(e), o)
       IN /\ flags' = f
          /\ entry' = e
          /\ options' = o
          /\ IF QueryParametersOf(e) = "null"
               THEN \* Object.entries(null)
                    /\ pc' = "done" /\ outcome' = Threw("TypeError")
                    /\ request' = NoRequest /\ console' = <<>> /\ written' = NoCells
             ELSE /\ request' = r
                  /\ console' = ConsoleLines(version, f, r)
                  /\ written' = SheetWrites(version, f, hasTestSheet, r)
                  /\ IF TestSheetWriteThrows(version, f, hasTestSheet)
                       THEN pc' = "done" /\ outcome' = Threw("TypeError")
                     ELSE IF f.SUBMIT_REQUESTS
                       THEN pc' = "loop" /\ outcome' = NoOutcome
                     ELSE pc' = "done" /\ outcome' = StubResponse(version, f)
  /\ n' = 0
  /\ attempts' = <<>>
  /\ sleeps' = <<>>
  /\ response' = NoResponse
  /\ UNCHANGED <<version, hasTestSheet, deployed>>

\* one pass of the loop body: try { fetch } catch (e) { ... sleep }
Fetch ==
  /\ pc = "loop"
  /\ LoopCondition(n)
  /\ \E answer \in Answers, jitter \in JitterChoices :
       /\ attempts' = Append(attempts, answer)
       /\ IF FetchThrows(answer, SHOW_HTTP_EXCEPTIONS)
            THEN IF version = "flags_js_509"
                   THEN \* n == _NUM_RETRIES: _NUM_RETRIES is declared nowhere
                        /\ pc' = "done"
                        /\ outcome' = Threw("ReferenceError")
                        /\ UNCHANGED <<n, sleeps, response>>
                 ELSE IF LastAttempt(n)
                   THEN /\ pc' = "done"
                        /\ outcome' = ThrewFetchException(Len(attempts) + 1)
                        /\ UNCHANGED <<n, sleeps, response>>
                 ELSE /\ sleeps' = Append(sleeps, BackoffDelay(n, jitter))
                      /\ n' = n + 1
                      /\ UNCHANGED <<pc, response, outcome>>
          ELSE /\ response' = [defined |-> TRUE, code |-> answer.code, body |-> answer.body]
               /\ jitter = 0
               /\ IF HasBreak(version)
                    THEN pc' = "check" /\ UNCHANGED n
                    ELSE n' = n + 1 /\ UNCHANGED pc
               /\ UNCHANGED <<sleeps, outcome>>
  /\ UNCHANGED <<version, hasTestSheet, flags, deployed, entry, options, request, console, written>>

\* the loop condition fails
LoopExit ==
  /\ pc = "loop"
  /\ ~LoopCondition(n)
  /\ pc' = "check"
  /\ UNCHANGED <<version, hasTestSheet, flags, n, attempts, sleeps, response, outcome,
                 deployed, entry, options, request, console, written>>

\* after the loop: response.getResponseCode() != 200, JSON.parse
CheckResponse ==
  /\ pc = "check"
  /\ pc' = "done"
  /\ outcome' =
       IF ~response.defined THEN Threw("TypeError")
       ELSE IF response.code # 200 THEN ThrewErrorWithRequest(response.code, response.body)
       ELSE IF response.body = "json" THEN Returned("parsed", response.code)
       ELSE IF response.body = "json_status_500"
         THEN Returned("parsed_status_500", response.code)
       ELSE Threw("SyntaxError")
  /\ UNCHANGED <<version, hasTestSheet, flags, n, attempts, sleeps, response,
                 deployed, entry, options, request, console, written>>

\* the call is over; FLAGS stay as they are
Finish ==
  /\ pc = "done"
  /\ pc' = "idle"
  /\ n' = 0
  /\ attempts' = <<>>
  /\ sleeps' = <<>>
  /\ response' = NoResponse
  /\ outcome' = NoOutcome
  /\ entry' = "none"
  /\ options' = NoOptions
  /\ request' = NoRequest
  /\ console' = <<>>
  /\ written' = NoCells
  /\ UNCHANGED <<version, hasTestSheet, flags, deployed>>

-----------------------------------------------------------------------------
(* The batch protocol of the add-ons: a 2d array of cell values is         *)
(* flattened into addressed units and a list of results is rebuilt into a  *)
(* 2d array.  JavaScript values are tagged; an array is a sequence, and an *)
(* index never assigned holds undefined.                                   *)

JsString(s) == [t |-> "string", v |-> s]
JsNumber(s) == [t |-> "number", v |-> s]
JsNull == [t |-> "null", v |-> ""]
JsUndefined == [t |-> "undefined", v |-> ""]

JsArray(items) == [t |-> "array", items |-> items]
NoArray == [t |-> "undefined", items |-> <<>>]

CellValues == {JsString(""), JsString("a"), JsNumber("5"), JsNull}

Clients == {"part_003", "Code_js"}

\* rectangular 2d arrays of at most MaxCells cells (rows may have no cell)
Grids ==
  UNION {[1..shape[1] -> [1..shape[2] -> CellValues]] :
           shape \in {s \in (0..MaxCells) \X (0..MaxCells) : s[1] * s[2] <= MaxCells}}

\* value.toString(): a TypeError on null and undefined
ToStringThrows(value) == value.t \in {"null", "undefined"}
toString(value) == JsString(value.v)

\* the cells visited column by column
LoopOrder_columns(grid) ==
  LET CellsOfColumn(c) == [r \in 1..Len(grid) |-> <<r, c>>]
  IN IF grid = <<>> THEN <<>>
     ELSE Concat([c \in 1..Len(grid[1]) |-> CellsOfColumn(c)])

\* for r ... for c ...: the cells in the order the loops visit them
LoopOrder(grid) ==
  LET CellsOfRow(r) == [c \in 1..Len(grid[r]) |-> <<r, c>>]
  IN Concat([r \in 1..Len(grid) |-> CellsOfRow(r)])

\* validationDataToDict (part_003) and flatten2dArray (Code.js)
flatten2dArray(c, grid) ==
  LET order == LoopOrder(grid)
      Cell(k) == grid[order[k][1]][order[k][2]]
  IN IF c = "part_003" /\ \E k \in 1..Len(order) : ToStringThrows(Cell(k))
       THEN [called |-> TRUE, threw |-> TRUE, list |-> <<>>]
       ELSE [called |-> TRUE, threw |-> FALSE,
             list |-> [k \in 1..Len(order) |->
                         [value |-> IF c = "part_003" THEN toString(Cell(k)) ELSE Cell(k),
                          row |-> order[k][1] - 1,
                          column |-> order[k][2] - 1]]]

\* values[i][response_field_name]
GetField(unit, name) == IF name \in DOMAIN unit THEN unit[name] ELSE JsUndefined

\* array[index] = x, for a 0-based index: the array grows as needed
SetIndex(array, index, x, unset) ==
  [k \in 1..(IF index + 1 > Len(array) THEN index + 1 ELSE Len(array)) |->
     IF k = index + 1 THEN x
     ELSE IF k <= Len(array) THEN array[k]
     ELSE unset]

\* the empty string stored as nothing
NoErrorMarker_unset(c) == JsUndefined

\* every add-on storing null for the empty string
NoErrorMarker_null(c) == JsNull

\* what a result with the empty string in the response field is stored as
NoErrorMarker(c) == IF c = "part_003" THEN JsString("") ELSE JsNull

\* the unit's own value read back
ResponseField_value(c, response_field_name) == "value"

\* the field unflatten2dArray reads: Code.js's takes no field name
ResponseField(c, response_field_name) ==
  IF c = "part_003" THEN response_field_name ELSE "validation_message"

RECURSIVE UnflattenFrom(_, _, _, _, _)
UnflattenFrom(c, list, response_field_name, i, output) ==
  IF i > Len(list) THEN output
  ELSE LET row == list[i].row
           rowArray == IF row + 1 > Len(output) \/ output[row + 1] = NoArray
                         THEN <<>> ELSE output[row + 1].items
           col == IF "column" \in DOMAIN list[i] THEN list[i].column ELSE 0
           field == GetField(list[i], ResponseField(c, response_field_name))
           stored == IF field = JsString("") THEN NoErrorMarker(c) ELSE field
       IN UnflattenFrom(c, list, response_field_name, i + 1,
            SetIndex(output, row,
                     JsArray(SetIndex(rowArray, col, stored, JsUndefined)), NoArray))

unflatten2dArray(c, list, response_field_name) ==
  [called |-> TRUE, rows |-> UnflattenFrom(c, list, response_field_name, 1, <<>>)]

NotCalled == [called |-> FALSE, threw |-> FALSE, list |-> <<>>]
NoMatrix == [called |-> FALSE, rows |-> <<>>]

BQuiet ==
  /\ client = "part_003"
  /\ values = <<>>
  /\ units = NotCalled
  /\ matrixed = NoMatrix

BInit ==
  /\ client \in Clients
  /\ values \in Grids
  /\ units = NotCalled
  /\ matrixed = NoMatrix

\* the add-on flattens the selection
Flatten ==
  /\ ~units.called
  /\ units' = flatten2dArray(client, values)
  /\ UNCHANGED <<client, values, matrixed>>

\* the flattened list is rebuilt on its 'value' field
UnflattenValues ==
  /\ units.called
  /\ ~units.threw
  /\ ~matrixed.called
  /\ matrixed' = unflatten2dArray(client, units.list, "value")
  /\ UNCHANGED <<client, values, units>>

-----------------------------------------------------------------------------
(* The callbacks of the add-ons on the active selection:                   *)
(* validateNamesInCells and updateNamesInCells.  A callback runs to its    *)
(* end in one step; what the service answers is drawn with the step.       *)

Handlers == {"validateNamesInCells", "updateNamesInCells"}

\* the callbacks each add-on has: Code.js has no updateNamesInCells
HandlersOf(c) == IF c = "part_003" THEN Handlers ELSE {"validateNamesInCells"}

_UPDATE_SUCCESS_RESPONSE_SUFFIX == JsString("Updated.")

\* cell contents of the selections drawn: getValues() gives no null
NameCells == {JsString("a"), JsNumber("5")}
KeyCells == {JsNumber("5"), JsNumber("1.5"), JsString("a")}
SelectedCells(h) == IF h = "validateNamesInCells" THEN NameCells ELSE KeyCells

\* the active range: at least one row and one column
Selections(h) ==
  UNION {[1..shape[1] -> [1..shape[2] -> SelectedCells(h)]] :
           shape \in {s \in (1..MaxCells) \X (1..MaxCells) : s[1] * s[2] <= MaxCells}}

\* range.getNumRows(), range.getNumColumns()
getNumRows(grid) == Len(grid)
getNumColumns(grid) == Len(grid[1])

\* Number.isInteger(value): of the numbers drawn, 5 is an integer, 1.5 is not
IsInteger(value) == value = JsNumber("5")

\* only the number of columns checked
checkUpdateRange_columns(grid) == getNumColumns(grid) = 2

\* (range.getNumColumns() == 2) && !column0.some((row) => !Number.isInteger(row[0]))
checkUpdateRange(grid) ==
  /\ getNumColumns(grid) = 2
  /\ ~\E r \in 1..getNumRows(grid) : ~IsInteger(grid[r][1])

\* updaterDataToDict: one unit per row, from its first two cells
updaterDataToDict(grid) ==
  [r \in 1..Len(grid) |->
     [row |-> r - 1, key |-> toString(grid[r][1]), new_value |-> toString(grid[r][2])]]

\* messages the service puts in the response field of a result
ValidationMessages == {JsString(""), JsString("Invalid value")}
UpdateResponses ==
  {_UPDATE_SUCCESS_RESPONSE_SUFFIX, JsString(""), JsString("Not Updated.")}

\* the result the service gives for a unit, with its message
ResultFor(h, unit, message) ==
  IF h = "validateNamesInCells"
    THEN [value |-> unit.value, row |-> unit.row, column |-> unit.column,
          validation_message |-> message]
    ELSE [row |-> unit.row, key |-> unit.key, response |-> message]

\* the results lists drawn: the units in order, each answered or left out
RECURSIVE ResultLists(_, _)
ResultLists(h, list) ==
  IF list = <<>> THEN {<<>>}
  ELSE LET rest == ResultLists(h, Tail(list))
           messages == IF h = "validateNamesInCells"
                         THEN ValidationMessages ELSE UpdateResponses
       IN rest \cup {<<ResultFor(h, Head(list), m)>> \o tail : m \in messages, tail \in rest}

\* every callback testing for the empty string
failure_test_nonempty(h, x) == x # JsString("")

\* failure_test of a callback: (t) => t !== '' and (rs) => rs !== 'Updated.'
failure_test(h, x) ==
  IF h = "validateNamesInCells" THEN x # JsString("")
  ELSE x # _UPDATE_SUCCESS_RESPONSE_SUFFIX

\* the test of Code.js's colouring loop: matrixed_results[r][c] === null
IsFailureNote(c, h, x) == IF c = "part_003" THEN failure_test(h, x) ELSE x # JsNull

\* range.setNotes(notes) throws unless notes has the rows and columns of the range
SetNotesMismatch(rows, numRows, numColumns) ==
  \/ Len(rows) # numRows
  \/ \E r \in 1..Len(rows) : rows[r] = NoArray \/ Len(rows[r].items) # numColumns

\* a note of the array that was never assigned
HasUndefinedNote(rows) ==
  \E r \in 1..Len(rows) :
    rows[r] # NoArray /\ \E k \in 1..Len(rows[r].items) : rows[r].items[k] = JsUndefined

\* outputResponse (part_003) and the loop of Code.js's validateNamesInCells:
\* setNotes, then red for a failure and no background otherwise.  Whether
\* setNotes takes an undefined note is the platform's choice (lenient).
outputResponse(c, h, rows, numRows, numColumns, lenient) ==
  IF SetNotesMismatch(rows, numRows, numColumns) \/ (HasUndefinedNote(rows) /\ ~lenient)
    THEN [threw |-> TRUE, notes |-> <<>>, backgrounds |-> <<>>]
    ELSE [threw |-> FALSE,
          notes |-> [r \in 1..numRows |-> rows[r].items],
          backgrounds |->
            [r \in 1..numRows |->
               [k \in 1..numColumns |->
                  IF IsFailureNote(c, h, rows[r].items[k]) THEN "red" ELSE "none"]]]

\* the results formatFailureMessages makes a widget of
RECURSIVE FailureWidgets(_, _, _, _)
FailureWidgets(h, list, id_field_name, response_field_name) ==
  IF list = <<>> THEN <<>>
  ELSE (IF failure_test(h, GetField(Head(list), response_field_name))
          THEN <<[id |-> GetField(Head(list), id_field_name),
                  text |-> GetField(Head(list), response_field_name)]>>
          ELSE <<>>)
         \o FailureWidgets(h, Tail(list), id_field_name, response_field_name)

formatFailureMessages(h, list, id_field_name, response_field_name, header_message_start) ==
  LET widgets == FailureWidgets(h, list, id_field_name, response_field_name)
  IN [kind |-> "results",
      header |-> IF Len(widgets) > 0
                   THEN <<header_message_start, " with ", ToString(Len(widgets)),
                          " failure(s):">>
                   ELSE <<>>,
      summary |-> IF Len(widgets) > 0 THEN <<>>
                  ELSE <<header_message_start, " successfully.">>,
      failures |-> widgets]

NoCard == [kind |-> "none", header |-> <<>>, summary |-> <<>>, failures |-> <<>>]

\* the card of updateNamesInCells for a selection it does not take
SelectionErrorCard ==
  [kind |-> "selection",
   header |-> <<>>,
   summary |-> <<"Selection nust have exactly 2 columns AND all values in first column (key) must be integers.">>,
   failures |-> <<>>]

AQuiet ==
  /\ handler = "validateNamesInCells"
  /\ apc = "idle"
  /\ requests = 0
  /\ flat_results = <<>>
  /\ notes = <<>>
  /\ backgrounds = <<>>
  /\ card = NoCard

\* the rest of a callback once submitRequest returned the response:
\* unflatten2dArray, outputResponse, formatFailureMessages
AfterResponse(list, field, idField, numColumns, headerStart, lenient) ==
  LET m == unflatten2dArray(client, list, field)
      out == outputResponse(client, handler, m.rows, getNumRows(values), numColumns, lenient)
  IN /\ flat_results' = list
     /\ matrixed' = m
     /\ notes' = out.notes
     /\ backgrounds' = out.backgrounds
     /\ IF out.threw
          THEN apc' = "threw" /\ card' = NoCard
          ELSE /\ apc' = "returned"
               /\ card' = IF client = "part_003"
                            THEN formatFailureMessages(handler, list, idField, field, headerStart)
                            ELSE NoCard

\* submitRequest threw: the callback ends with that exception
SubmitThrew ==
  /\ apc' = "threw"
  /\ UNCHANGED <<flat_results, matrixed, notes, backgrounds, card>>

validateNamesInCells ==
  /\ apc = "idle"
  /\ handler = "validateNamesInCells"
  /\ units' = flatten2dArray(client, values)
  /\ requests' = requests + 1
  /\ \/ SubmitThrew
     \/ \E list \in ResultLists(handler, units'.list), lenient \in BOOLEAN :
          AfterResponse(list, "validation_message", "value", getNumColumns(values),
                        "Validation completed", lenient)
  /\ UNCHANGED <<client, values, handler>>

updateNamesInCells ==
  /\ apc = "idle"
  /\ handler = "updateNamesInCells"
  /\ IF ~checkUpdateRange(values)
       THEN /\ apc' = "returned"
            /\ card' = SelectionErrorCard
            /\ UNCHANGED <<units, requests, flat_results, matrixed, notes, backgrounds>>
       ELSE /\ units' = [called |-> TRUE, threw |-> FALSE, list |-> updaterDataToDict(values)]
            /\ requests' = requests + 1
            /\ \/ SubmitThrew
               \/ \E list \in ResultLists(handler, units'.list), lenient \in BOOLEAN :
                    AfterResponse(list, "response", "key", 1, "Update completed", lenient)
  /\ UNCHANGED <<client, values, handler>>

AInit ==
  /\ client \in Clients
  /\ handler \in HandlersOf(client)
  /\ values \in Selections(handler)
  /\ units = NotCalled
  /\ matrixed = NoMatrix
  /\ apc = "idle"
  /\ requests = 0
  /\ flat_results = <<>>
  /\ notes = <<>>
  /\ backgrounds = <<>>
  /\ card = NoCard

-----------------------------------------------------------------------------
(* The configurator: generateAllConfigData builds the payload of a request *)
(* from three sheets.  Row 1 of a sheet holds the keys, the value rows     *)
(* start at row 3, and one column holds the filter of each value row.  A   *)
(* data cell stands for its own content: it is modelled by its address.    *)

JsBoolean(b) == [t |-> "boolean", v |-> IF b THEN "true" ELSE "false"]

OBJECTS_TO_GENERATE_ ==
  << [sheet |-> "Taxonomy Fields", entityType |-> "TaxonomyField", keyRow |-> 1,
      dataColumnStart |-> 1, dataColumnEnd |-> 5, valueRowOffset |-> 2,
      filterColumn |-> 6],
     [sheet |-> "Taxonomy Specs", entityType |-> "TaxonomySpec", keyRow |-> 1,
      dataColumnStart |-> 1, dataColumnEnd |-> 12, valueRowOffset |-> 2,
      filterColumn |-> 13],
     [sheet |-> "Taxonomy Field Mappings", entityType |-> "TaxonomyDimension",
      keyRow |-> 1, dataColumnStart |-> 1, dataColumnEnd |-> 4,
      valueRowOffset |-> 2, filterColumn |-> 5] >>

SheetNames == {OBJECTS_TO_GENERATE_[i].sheet : i \in DOMAIN OBJECTS_TO_GENERATE_}

\* the keys a full key row holds, column by column
ColumnKeys ==
  <<"name", "k2", "k3", "k4", "k5", "k6", "k7", "k8", "k9", "k10", "k11", "k12">>

\* key rows of a sheet with that many data columns: every cell filled, the
\* second cell empty, the last cell empty, the last key the same as the first
KeyRows(colCount) ==
  { [c \in 1..colCount |-> ColumnKeys[c]],
    [c \in 1..colCount |-> IF c = 2 THEN "" ELSE ColumnKeys[c]],
    [c \in 1..colCount |-> IF c = colCount THEN "" ELSE ColumnKeys[c]],
    [c \in 1..colCount |-> IF c = colCount THEN ColumnKeys[1] ELSE ColumnKeys[c]] }

\* filter columns of a sheet, one cell per value row: checkbox values, an
\* empty cell, a text
FilterColumns ==
  { <<JsBoolean(TRUE)>>,
    <<JsString("")>>,
    <<JsBoolean(TRUE), JsString("x")>>,
    <<JsBoolean(FALSE), JsBoolean(TRUE)>>,
    <<JsBoolean(TRUE), JsBoolean(FALSE), JsBoolean(TRUE)>> }

\* the contents of the sheet a definition names
SheetsOf(def) ==
  { [keyRow |-> k, filterColumn |-> f] :
      k \in KeyRows(def.dataColumnEnd - def.dataColumnStart + 1), f \in FilterColumns }

SheetDef(name) ==
  CHOOSE def \in {OBJECTS_TO_GENERATE_[i] : i \in DOMAIN OBJECTS_TO_GENERATE_} :
    def.sheet = name

\* sht.getLastRow(): the value rows follow the key row and the row after it
getLastRow(sht) == 2 + Len(sht.filterColumn)

\* if (x) for a cell value that is a boolean or a string
Truthy_checked(x) == x = JsBoolean(TRUE)

Truthy(x) == x \notin {JsBoolean(FALSE), JsString("")}

\* keys[c] != ''
KeyIsSet(key) == key # ""

\* the object of value row r (0-based): obj[keys[c]] = values[r][c] for c
\* from 0 on, a later column replacing the entry of an earlier one with the
\* same key
RowObject(sheetDef, keys, valueRowStart, r) ==
  LET colCount == sheetDef.dataColumnEnd - sheetDef.dataColumnStart + 1
      set == {c \in 1..colCount : KeyIsSet(keys[c])}
      last(key) == CHOOSE c \in set : keys[c] = key /\ \A d \in set : keys[d] = key => d <= c
  IN [key \in {keys[c] : c \in set} |->
        <<valueRowStart + r, sheetDef.dataColumnStart + last(key) - 1>>]

RECURSIVE EntitiesFrom(_, _, _, _, _, _)
EntitiesFrom(sheetDef, keys, filters, valueRowStart, valueRowCount, r) ==
  IF ~(r < valueRowCount) THEN <<>>
  ELSE (IF Truthy(filters[r + 1])
          THEN <<RowObject(sheetDef, keys, valueRowStart, r)>>
          ELSE <<>>)
       \o EntitiesFrom(sheetDef, keys, filters, valueRowStart, valueRowCount, r + 1)

getSheetConfigDataForRequest(sheetDef, sht) ==
  LET valueRowStart == sheetDef.keyRow + sheetDef.valueRowOffset
      valueRowCount == getLastRow(sht) - valueRowStart + 1
  IN [type |-> sheetDef.entityType,
      data |-> EntitiesFrom(sheetDef, sht.keyRow, sht.filterColumn,
                            valueRowStart, valueRowCount, 0)]

NoPayload == [built |-> FALSE, data |-> <<>>]

\* generateAllConfigData up to its submitRequest call
GenerateAllConfigData ==
  /\ ~payload.built
  /\ payload' =
       [built |-> TRUE,
        data |-> [i \in DOMAIN OBJECTS_TO_GENERATE_ |->
                    getSheetConfigDataForRequest(OBJECTS_TO_GENERATE_[i],
                                                 sheets[OBJECTS_TO_GENERATE_[i].sheet])]]
  /\ UNCHANGED sheets

\* the user edits one of the sheets; the payload of the last request is gone
EditSheet ==
  /\ \E s \in SheetNames : \E sht \in SheetsOf(SheetDef(s)) :
       sheets' = [sheets EXCEPT ![s] = sht]
  /\ payload' = NoPayload

CQuiet ==
  /\ sheets = [s \in SheetNames |->
                 [keyRow |-> [c \in 1..(SheetDef(s).dataColumnEnd) |-> ColumnKeys[c]],
                  filterColumn |-> <<JsBoolean(TRUE)>>]]
  /\ payload = NoPayload

-----------------------------------------------------------------------------
(* The Sheets add-on keeps the names of the spec sets in the user's        *)
(* properties: specName0, specName1, ... and specName_count.               *)

SpecNameChoices == {"a", "b", "c"}

\* the specs of a list_specs response
SpecLists ==
  {[i \in DOMAIN names |-> [name |-> names[i]]] : names \in SeqsUpTo(SpecNameChoices, MaxSpecs)}

\* i.toString() and the conversion of a property to a number in i < count
Digits == <<"0", "1", "2", "3", "4", "5">>

toStringOf(i) == Digits[i + 1]

ToNumber(s) == CHOOSE i \in 0..(Len(Digits) - 1) : Digits[i + 1] = s

\* `specName${i}` and 'specName_count'
PropertyKey(suffix) == <<"specName", suffix>>

NoProperties == [key \in {} |-> ""]

setProperty(props, key, value) == (key :> value) @@ props

\* getProperty: the value, or null for a key never set
getProperty(props, key) ==
  IF key \in DOMAIN props THEN JsString(props[key]) ELSE JsNull

RECURSIVE StoreFrom(_, _, _)
StoreFrom(props, specs, i) ==
  IF i >= Len(specs) THEN props
  ELSE StoreFrom(setProperty(props, PropertyKey(toStringOf(i)), specs[i + 1].name),
                 specs, i + 1)

\* a store that writes the count only when there is none yet
storeSpecNamesAsUserProperties_once(props, specs) ==
  LET named == StoreFrom(props, specs, 0)
  IN IF PropertyKey("_count") \in DOMAIN named THEN named
     ELSE setProperty(named, PropertyKey("_count"), toStringOf(Len(specs)))

storeSpecNamesAsUserProperties(props, specs) ==
  setProperty(StoreFrom(props, specs, 0), PropertyKey("_count"), toStringOf(Len(specs)))

\* i < specNameCount, with the count a string or null
BelowCount(i, specNameCount) ==
  IF specNameCount = JsNull THEN i < 0 ELSE i < ToNumber(specNameCount.v)

RECURSIVE GetFrom(_, _, _)
GetFrom(props, specNameCount, i) ==
  IF ~BelowCount(i, specNameCount) THEN <<>>
  ELSE <<getProperty(props, PropertyKey(toStringOf(i)))>>
         \o GetFrom(props, specNameCount, i + 1)

getSpecNamesFromUserProperties(props) ==
  GetFrom(props, getProperty(props, PropertyKey("_count")), 0)

NoCardBuilt == [built |-> FALSE, names |-> <<>>]

\* loadSpecChooserCard: the specs of the response are stored and the card is
\* built from the properties; when submitRequest throws, neither happens
loadSpecChooserCard ==
  \/ \E specs \in SpecLists :
       /\ userProperties' = storeSpecNamesAsUserProperties(userProperties, specs)
       /\ lastSpecs' = specs
       /\ specNames' = [built |-> TRUE,
                        names |-> getSpecNamesFromUserProperties(userProperties')]
  \/ /\ specNames' = NoCardBuilt
     /\ UNCHANGED <<userProperties, lastSpecs>>

\* buildSpecSelectorCard, as the other callbacks of the add-on call it
buildSpecSelectorCard ==
  /\ specNames' = [built |-> TRUE, names |-> getSpecNamesFromUserProperties(userProperties)]
  /\ UNCHANGED <<userProperties, lastSpecs>>

UQuiet ==
  /\ userProperties = NoProperties
  /\ lastSpecs = <<>>
  /\ specNames = NoCardBuilt

XQuiet == CQuiet /\ UQuiet

-----------------------------------------------------------------------------
(* The validation service: a spec is configured, batches are validated.    *)

VQuiet ==
  /\ spec = <<[field_spec |-> Fields.yyyyq, end_delimiter |-> <<"_">>]>>
  /\ entity_names = <<>>
  /\ validation = <<>>
  /\ results = <<>>

SQuiet ==
  /\ version = "part_003"
  /\ hasTestSheet = FALSE
  /\ flags = InitialFlags("part_003")
  /\ deployed = InitialFlags("part_003")
  /\ SIdle

VInit ==
  /\ spec \in Specs
  /\ entity_names = <<>>
  /\ validation = <<>>
  /\ results = <<>>
  /\ SQuiet
  /\ BQuiet
  /\ AQuiet
  /\ XQuiet

\* validate_names: the service runs the rendered query on the batch of a request
ValidateNames ==
  /\ entity_names = <<>>
  /\ \E name \in Names :
       LET V == Validation(spec, NullChecker(spec, Dimensions(spec, <<name>>)))
       IN /\ entity_names' = <<name>>
          /\ validation' = V
          /\ results' = FinalSelect(V)
          /\ UNCHANGED <<spec, svars, bvars, avars, xvars>>

\* the response is sent; the service keeps nothing of the request
Respond ==
  /\ entity_names # <<>>
  /\ entity_names' = <<>>
  /\ validation' = <<>>
  /\ results' = <<>>
  /\ UNCHANGED <<spec, svars, bvars, avars, xvars>>

VNext == ValidateNames \/ Respond

\* names of the batches of several names
BatchNames == {<<>>, <<"a", "_">>, <<"-">>, <<"a", "a", "-">>}
Batches == SeqsUpTo(BatchNames, MaxBatch) \ {<<>>}

\* validate_names on a batch of several names
ValidateBatch ==
  /\ entity_names = <<>>
  /\ \E batch \in Batches :
       LET V == Validation(spec, NullChecker(spec, Dimensions(spec, batch)))
       IN /\ entity_names' = batch
          /\ validation' = V
          /\ results' = FinalSelect(V)
          /\ UNCHANGED <<spec, svars, bvars, avars, xvars>>

VBNext == ValidateBatch \/ Respond

SpecValidatorBatch == VInit /\ [][VBNext]_vars

SpecValidator == VInit /\ [][VNext]_vars

-----------------------------------------------------------------------------
(* A deployment of one of the clients, calling submitRequest.              *)

SInit ==
  /\ version \in Versions
  /\ hasTestSheet \in BOOLEAN
  /\ flags \in DeployedFlags(version)
  /\ deployed = flags
  /\ SIdle
  /\ VQuiet
  /\ BQuiet
  /\ AQuiet
  /\ XQuiet

SNext ==
  \/ SubmitRequest /\ UNCHANGED <<vvars, bvars, avars, xvars>>
  \/ Fetch /\ UNCHANGED <<vvars, bvars, avars, xvars>>
  \/ LoopExit /\ UNCHANGED <<vvars, bvars, avars, xvars>>
  \/ CheckResponse /\ UNCHANGED <<vvars, bvars, avars, xvars>>
  \/ Finish /\ UNCHANGED <<vvars, bvars, avars, xvars>>

SpecSubmit == SInit /\ [][SNext]_vars

\* a call that has started keeps running: the script is sequential code, and
\* Utilities.sleep returns
RunningCall == (Fetch \/ LoopExit \/ CheckResponse) /\ UNCHANGED <<vvars, bvars, avars, xvars>>

FairSpecSubmit == SpecSubmit /\ WF_vars(RunningCall)

-----------------------------------------------------------------------------
(* An add-on flattening a selection and rebuilding it.                     *)

GInit == BInit /\ VQuiet /\ SQuiet /\ AQuiet /\ XQuiet

GNext ==
  \/ Flatten /\ UNCHANGED <<vvars, svars, avars, xvars>>
  \/ UnflattenValues /\ UNCHANGED <<vvars, svars, avars, xvars>>

SpecBatch == GInit /\ [][GNext]_vars

-----------------------------------------------------------------------------
(* An add-on running a callback on the selection.                          *)

HInit == AInit /\ VQuiet /\ SQuiet /\ XQuiet

HNext ==
  \/ validateNamesInCells /\ UNCHANGED <<vvars, svars, xvars>>
  \/ updateNamesInCells /\ UNCHANGED <<vvars, svars, xvars>>

SpecAddon == HInit /\ [][HNext]_vars

-----------------------------------------------------------------------------
(* The configurator building a payload from its sheets.                    *)

CInit ==
  /\ CQuiet
  /\ UQuiet
  /\ VQuiet
  /\ SQuiet
  /\ BQuiet
  /\ AQuiet

CNext ==
  \/ GenerateAllConfigData /\ UNCHANGED <<vvars, svars, bvars, avars, uvars>>
  \/ EditSheet /\ UNCHANGED <<vvars, svars, bvars, avars, uvars>>

SpecConfig == CInit /\ [][CNext]_vars

-----------------------------------------------------------------------------
(* The Sheets add-on storing and reading the names of the spec sets.       *)

UInit == UQuiet /\ CQuiet /\ VQuiet /\ SQuiet /\ BQuiet /\ AQuiet

UNext ==
  \/ loadSpecChooserCard /\ UNCHANGED <<vvars, svars, bvars, avars, cvars>>
  \/ buildSpecSelectorCard /\ UNCHANGED <<vvars, svars, bvars, avars, cvars>>

SpecProperties == UInit /\ [][UNext]_vars

-----------------------------------------------------------------------------
(* Reading names and messages, for the properties below.                   *)

\* delim occurs in text
Occurs(text, delim) ==
  \E p \in 1..(Len(text) - Len(delim) + 1) : SubSeq(text, p, p + Len(delim) - 1) = delim

\* in value followed by delim, the first occurrence of delim is the appended one
EndsAtDelimiter(value, delim) ==
  ~\E p \in 1..Len(value) :
      /\ p + Len(delim) - 1 <= Len(value) + Len(delim)
      /\ SubSeq(value \o delim, p, p + Len(delim) - 1) = delim

\* every <<v_1, ..., v_n, rest>> with  text = v_1 d_1 ... v_n d_n rest,
\* d_i the delimiter of dims[i], for the part of text from position s on
RECURSIVE Compositions(_, _, _, _)
Compositions(dims, text, i, s) ==
  IF i > Len(dims) THEN {<<SubSeq(text, s, Len(text))>>}
  ELSE LET d == dims[i].end_delimiter
           ends == {p \in s..(Len(text) - Len(d) + 1) :
                      SubSeq(text, p, p + Len(d) - 1) = d}
       IN UNION {{<<SubSeq(text, s, p - 1)>> \o tail :
                    tail \in Compositions(dims, text, i + 1, p + Len(d))} :
                 p \in ends}

InDictionary(dim, value) ==
  \E k \in 1..Len(dim.field_spec.table) : dim.field_spec.table[k] = value

\* a valid value of a dimension: a dictionary member, or any non-empty freeform text
ValidValue(dim, value) ==
  IF dim.field_spec.is_freeform_text THEN value # <<>> ELSE InDictionary(dim, value)

RECURSIVE Split(_)
Split(text) ==
  LET breaks == {p \in 1..Len(text) : text[p] = "\n"}
  IN IF breaks = {} THEN <<text>>
     ELSE LET p == CHOOSE q \in breaks : \A r \in breaks : q <= r
          IN <<SubSeq(text, 1, p - 1)>> \o Split(SubSeq(text, p + 1, Len(text)))

\* the lines of a message; the empty message has none
Lines(message) == IF message = <<>> THEN <<>> ELSE Split(message)

\* line is a per-position message of position p
IsLineFor(line, p) ==
  /\ Len(line) >= 2
  /\ \/ line[1] = "Missing value in position " /\ line[2] = ToString(p)
     \/ /\ line[1] = "Invalid value \""
        /\ \E j \in 2..(Len(line) - 1) :
             line[j] = "\" in position " /\ line[j + 1] = ToString(p)

LinesFor(message, p) ==
  LET Test(line) == IsLineFor(line, p) IN SelectSeq(Lines(message), Test)

HasLine(message, line) == \E k \in 1..Len(Lines(message)) : Lines(message)[k] = line

\* the query returns a row for the name whenever no dictionary of the spec is empty
RowsReturned == CrossJoinRows(spec) > 0 => results # <<>>

Validated == entity_names # <<>>

-----------------------------------------------------------------------------
-----------------------------------------------------------------------------
\* the first p dimensions of the spec
FirstDims(p) == SubSeq(spec, 1, p)

\* the ways the name starts with p segments, each ended by the first
\* occurrence of its delimiter: <<v_1, ..., v_p, rest>> (at most one)
Segmented(p) ==
  {c \in Compositions(FirstDims(p), entity_names[1], 1, 1) :
     \A i \in 1..p : EndsAtDelimiter(c[i], spec[i].end_delimiter)}

\* C2: a segment of a non-freeform position p that is not in the field's
\* dictionary gets exactly one line for position p in the message, the
\* 'Invalid value "<segment>" in position p (field "<field_name>").' line.
C2_OneInvalidLine ==
  Validated =>
    /\ RowsReturned
    /\ \A p \in 1..Len(spec) : \A c \in Segmented(p) :
         (~spec[p].field_spec.is_freeform_text /\ ~InDictionary(spec[p], c[p]))
         => \A k \in 1..Len(results) :
              LinesFor(results[k].validation_message, p)
                = <<InvalidValue(p, spec[p].field_spec.name, c[p])>>

C2_Witness ==
  /\ Validated
  /\ results # <<>>
  /\ \E p \in 1..Len(spec) : \E c \in Segmented(p) :
       /\ ~spec[p].field_spec.is_freeform_text
       /\ ~InDictionary(spec[p], c[p])
       /\ c[p] # <<>>
       /\ Len(Lines(results[1].validation_message)) >= 2
       /\ LinesFor(results[1].validation_message, p)
            = <<InvalidValue(p, spec[p].field_spec.name, c[p])>>

\* delimiter k is missing: the segments before k are there, and the
\* delimiter of dimension k does not occur in what follows them
DelimiterMissing(k, c) ==
  /\ c \in Segmented(k - 1)
  /\ ~Occurs(c[k], spec[k].end_delimiter)

\* C3 (as stated): when delimiter k (k < N) is missing, the message has the
\* line "Missing value in position j." for every dimension j from k onward,
\* and no line at all for a dimension before k whose segment is present.
C3_NoLineBeforeMissing ==
  Validated =>
    \A k \in 1..(Len(spec) - 1) : \A c \in Compositions(FirstDims(k - 1), entity_names[1], 1, 1) :
      DelimiterMissing(k, c)
      => \A r \in 1..Len(results) :
           /\ \A j \in k..Len(spec) :
                HasLine(results[r].validation_message, MissingValue(j))
           /\ \A j \in 1..(k - 1) :
                c[j] # <<>> => LinesFor(results[r].validation_message, j) = <<>>

\* C3 (amended): when delimiter k (k < N) is missing, the message has the
\* line "Missing value in position j." for every dimension j from k onward,
\* and no "Missing value" line for a dimension before k whose segment is
\* present (such a dimension has no line, or its "Invalid value" line).
C3_MissingFromDelimiterOn ==
  Validated =>
    /\ RowsReturned
    /\ \A k \in 1..(Len(spec) - 1) : \A c \in Compositions(FirstDims(k - 1), entity_names[1], 1, 1) :
         DelimiterMissing(k, c)
         => \A r \in 1..Len(results) :
              /\ \A j \in k..Len(spec) :
                   LinesFor(results[r].validation_message, j) = <<MissingValue(j)>>
              /\ \A j \in 1..(k - 1) :
                   c[j] # <<>> => ~HasLine(results[r].validation_message, MissingValue(j))

C3_Witness ==
  /\ Validated
  /\ Len(spec) = 3
  /\ results # <<>>
  /\ \E c \in Compositions(FirstDims(1), entity_names[1], 1, 1) :
       /\ DelimiterMissing(2, c)
       /\ c[1] # <<>>
       /\ c[2] # <<>>
       /\ Lines(results[1].validation_message) = <<MissingValue(2), MissingValue(3)>>

NonNull(array) ==
  LET Present(x) == ~x.null
      kept == SelectSeq(array, Present)
  IN [k \in 1..Len(kept) |-> kept[k].s]

\* C5: the message of a row is its non-NULL per-position messages in
\* ascending position order, then the extra-data message when there is one,
\* joined by line breaks: a position without message gives no line, not even
\* an empty one, and a row without messages gives the empty message.
C5_MessageComposition ==
  /\ Len(results) = Len(validation)
  /\ \A r \in 1..Len(results) :
       LET row == validation[r]
           message == results[r].validation_message
       IN /\ results[r].name = row.name
          /\ Lines(message)
               = NonNull(Append(row.d_validation, row.d_extra_data_validation))
          /\ \A i \in 1..Len(spec) :
               LinesFor(message, i) = NonNull(<<row.d_validation[i]>>)
          /\ \A k \in 1..Len(Lines(message)) : Lines(message)[k] # <<>>
          /\ (/\ \A i \in 1..Len(spec) : row.d_validation[i].null
              /\ row.d_extra_data_validation.null) => message = <<>>

C5_Witness ==
  /\ Validated
  /\ results # <<>>
  /\ Len(spec) = 2
  /\ ~validation[1].d_validation[1].null
  /\ validation[1].d_validation[2].null
  /\ ~validation[1].d_extra_data_validation.null
  /\ Len(Lines(results[1].validation_message)) = 2

-----------------------------------------------------------------------------
\* C6: when every one of the 3 fetch attempts of a call fails with a
\* transport exception, the call ends by throwing the exception of the last
\* attempt.
C6_LastTransportErrorSurfaces ==
  (/\ pc = "done"
   /\ Len(attempts) = NUM_RETRIES
   /\ \A i \in 1..Len(attempts) : attempts[i].kind = "exception")
  => outcome = ThrewFetchException(NUM_RETRIES)

\* C7: a call with FLAGS.SUBMIT_REQUESTS true issues at most NUM_RETRIES
\* fetch attempts, whatever the endpoint answers, and ends, returning the
\* parsed response or throwing.
C7_BoundedAttemptsAndTermination ==
  /\ [](Len(attempts) <= NUM_RETRIES)
  /\ [](pc = "loop" => flags.SUBMIT_REQUESTS)
  /\ (pc = "loop") ~> (/\ pc = "done"
                       /\ \/ outcome.kind = "throw"
                          \/ outcome.kind = "return" /\ outcome.code = 200)

C7_Witness ==
  /\ pc = "done"
  /\ flags.SUBMIT_REQUESTS
  /\ Len(attempts) = NUM_RETRIES
  /\ attempts[1].kind = "exception"
  /\ attempts[2].kind = "exception"
  /\ attempts[3].kind = "response"
  /\ outcome = Returned("parsed", 200)

\* C8: in the copies the claim names (part_003, flags.js line 233), a fetch
\* that returned a response with a status in [400,599] is the last fetch of
\* its call: every attempt that is followed by another one raised a transport
\* exception, no delay is slept after the response, and the call throws the
\* error that names the response's code and body.
C8_NoRetryAfterErrorResponse ==
  version \in {"part_003", "flags_js_233"} =>
    /\ \A i \in 1..(Len(attempts) - 1) : attempts[i].kind = "exception"
    /\ \A i \in 1..Len(attempts) :
         (attempts[i].kind = "response" /\ IsErrorStatus(attempts[i].code))
         => /\ i = Len(attempts)
            /\ Len(sleeps) = i - 1
            /\ pc \in {"check", "done"}
            /\ pc = "done" =>
                 outcome = ThrewErrorWithRequest(attempts[i].code, attempts[i].body)

C8_Witness ==
  /\ HasBreak(version)
  /\ pc = "done"
  /\ Len(attempts) = 2
  /\ attempts[1].kind = "exception"
  /\ attempts[2] = HttpResponse(HTTP_STATUS_MAX_ERROR_VALUE_, "text")
  /\ outcome = ThrewErrorWithRequest(HTTP_STATUS_MAX_ERROR_VALUE_, "text")

-----------------------------------------------------------------------------
(* Reading a grid and its units.                                           *)

AllCells == {rc \in (1..MaxCells) \X (1..MaxCells) :
               rc[1] <= Len(values) /\ rc[2] <= Len(values[rc[1]])}
NonNullCells == {rc \in AllCells : values[rc[1]][rc[2]] # JsNull}
AllStrings == \A rc \in AllCells : values[rc[1]][rc[2]].t = "string"
AsArrays(grid) == [r \in 1..Len(grid) |-> JsArray(grid[r])]

\* the list holds one unit for each of the cells, addressed from 0, carrying
\* the cell's content, rows ascending and columns ascending within a row
UnitsCover(cells) ==
  /\ Len(units.list) = Cardinality(cells)
  /\ \A k \in 1..Len(units.list) :
       LET unit == units.list[k]
       IN /\ <<unit.row + 1, unit.column + 1>> \in cells
          /\ unit.value.v = values[unit.row + 1][unit.column + 1].v
          /\ \A j \in 1..(k - 1) :
               \/ units.list[j].row < unit.row
               \/ /\ units.list[j].row = unit.row
                  /\ units.list[j].column < unit.column

-----------------------------------------------------------------------------
(* Reading what a callback did.                                            *)

ResponseFieldOf(h) == IF h = "validateNamesInCells" THEN "validation_message" ELSE "response"
ColumnOf(result) == IF "column" \in DOMAIN result THEN result.column ELSE 0

\* matrixed_results[r][c] for 0-based r, c; undefined where nothing was stored
CellOf(rows, r, c) ==
  IF r + 1 > Len(rows) THEN JsUndefined
  ELSE IF rows[r + 1] = NoArray THEN JsUndefined
  ELSE IF c + 1 > Len(rows[r + 1].items) THEN JsUndefined
  ELSE rows[r + 1].items[c + 1]

\* the cells (0-based) the callback asked results for
AskedCells ==
  IF handler = "validateNamesInCells"
    THEN {<<r, c>> : r \in 0..(getNumRows(values) - 1), c \in 0..(getNumColumns(values) - 1)}
    ELSE {<<r, 0>> : r \in 0..(getNumRows(values) - 1)}
AnsweredCells == {<<flat_results[i].row, ColumnOf(flat_results[i])>> : i \in 1..Len(flat_results)}

\* C11: in the array unflatten2dArray builds from the results, the cell of a
\* result whose response field is the empty string holds the no-error marker
\* ('' in part_003, null in Code.js), which is not undefined; a cell that was
\* asked about and has no result holds nothing (reads as undefined).
C11_NoErrorMarkerAndUnset ==
  matrixed.called =>
    /\ \A i \in 1..Len(flat_results) :
         GetField(flat_results[i], ResponseFieldOf(handler)) = JsString("")
         => LET cell == CellOf(matrixed.rows, flat_results[i].row, ColumnOf(flat_results[i]))
            IN /\ cell \in {JsString(""), JsNull}
               /\ cell # JsUndefined
    /\ \A rc \in AskedCells \ AnsweredCells :
         CellOf(matrixed.rows, rc[1], rc[2]) = JsUndefined

C11_Witness ==
  /\ matrixed.called
  /\ handler = "validateNamesInCells"
  /\ client = "Code_js"
  /\ getNumRows(values) = 1
  /\ getNumColumns(values) = 2
  /\ AnsweredCells = {<<0, 1>>}
  /\ flat_results[1].validation_message = JsString("")
  /\ matrixed.rows = <<JsArray(<<JsUndefined, JsNull>>)>>

\* the selection has exactly 2 columns and only integers in its first column
TakenByUpdate ==
  /\ Len(values[1]) = 2
  /\ \A r \in 1..Len(values) : values[r][1].t = "number" /\ values[r][1].v = "5"

\* C12: updateNamesInCells, run on a selection that has not exactly 2 columns
\* or has a non-integer in its first column, returns the error card and has
\* made no submitRequest call; run on a 2-column selection with integer keys
\* it goes on to its one submitRequest call.
C12_UpdateRangeChecked ==
  (handler = "updateNamesInCells" /\ apc # "idle") =>
    IF TakenByUpdate
      THEN requests = 1 /\ card # SelectionErrorCard
      ELSE /\ apc = "returned"
           /\ card = SelectionErrorCard
           /\ requests = 0
           /\ flat_results = <<>>
           /\ notes = <<>>

C12_Witness ==
  /\ handler = "updateNamesInCells"
  /\ apc = "returned"
  /\ Len(values) = 2
  /\ Len(values[1]) = 2
  /\ values[1][1] = JsNumber("5")
  /\ values[2][1] = JsNumber("1.5")
  /\ card = SelectionErrorCard
  /\ requests = 0

\* the results of an update whose response is not the text 'Updated.'
NotUpdated(result) == result.response.v # "Updated."
FailedUpdates == SelectSeq(flat_results, NotUpdated)

\* C13: when updateNamesInCells returns its results card, the failures listed
\* are exactly the results whose response is not 'Updated.', in order, each
\* with its key and its response text as received; a result's cell is left
\* without background exactly when its response is 'Updated.'; and the card
\* says 'Update completed successfully.' exactly when no result is a failure
\* (otherwise its header counts the failures).
C13_SuccessIsUpdatedMarker ==
  (handler = "updateNamesInCells" /\ apc = "returned" /\ card.kind = "results") =>
    /\ card.failures =
         [i \in 1..Len(FailedUpdates) |->
            [id |-> FailedUpdates[i].key, text |-> FailedUpdates[i].response]]
    /\ \A i \in 1..Len(flat_results) :
         (backgrounds[flat_results[i].row + 1][1] = "none")
           <=> (flat_results[i].response = JsString("Updated."))
    /\ (card.summary = <<"Update completed", " successfully.">>)
         <=> (FailedUpdates = <<>>)
    /\ FailedUpdates # <<>> =>
         card.header = <<"Update completed", " with ", ToString(Len(FailedUpdates)),
                         " failure(s):">>

C13_Witness ==
  /\ handler = "updateNamesInCells"
  /\ apc = "returned"
  /\ Len(flat_results) = 2
  /\ flat_results[1].response = JsString("Updated.")
  /\ flat_results[2].response = JsString("Not Updated.")
  /\ Len(card.failures) = 1
  /\ card.failures[1].text = JsString("Not Updated.")
  /\ backgrounds = << <<"none">>, <<"red">> >>

\* the attempts (1-based) of the call that raised an exception, in order
FailedAttempts == SelectSeq([i \in 1..Len(attempts) |-> i],
                            LAMBDA i : attempts[i].kind = "exception")

\* C14: every delay slept by submitRequest follows a failed attempt, and the
\* delay slept after failed attempt number a (0-indexed) is a whole number of
\* milliseconds from 1000 * 2^a to 1000 * 2^a + 1000.
C14_BackoffDelayRange ==
  /\ Len(sleeps) <= Len(FailedAttempts)
  /\ \A k \in 1..Len(sleeps) :
       LET a == FailedAttempts[k] - 1
       IN /\ sleeps[k] >= 1000 * (2 ^ a)
          /\ sleeps[k] <= 1000 * (2 ^ a) + 1000

C14_Witness ==
  /\ version = "part_003"
  /\ Len(attempts) = 3
  /\ attempts[1].kind = "exception"
  /\ attempts[2].kind = "exception"
  /\ attempts[3].kind = "response"
  /\ sleeps = <<1500, 3000>>

\* the results of a validation that carry a message
WithMessage(result) == result.validation_message.v # ""
FailedValidations == SelectSeq(flat_results, WithMessage)

\* the response holds exactly one result for each cell of the selection
EveryCellAnswered ==
  /\ Len(flat_results) = Cardinality(AskedCells)
  /\ AnsweredCells = AskedCells

MessagesOf(rows, name) ==
  {rows[r].validation_message : r \in {k \in 1..Len(rows) : rows[k].name = name}}

\* what the query returns for the name when it is the whole batch
Alone(name) ==
  FinalSelect(Validation(spec, NullChecker(spec, Dimensions(spec, <<name>>))))

\* C16: for every name of a batch, whatever the other names, their order and
\* the number of times the name occurs, the results give the name the
\* messages the query gives it when it is validated alone, and no two
\* different messages.
C16_MessageDependsOnSpecAndName ==
  \A k \in 1..Len(entity_names) :
    /\ MessagesOf(results, entity_names[k]) = MessagesOf(Alone(entity_names[k]), entity_names[k])
    /\ Cardinality(MessagesOf(results, entity_names[k])) <= 1

C16_Witness ==
  /\ Len(entity_names) = 2
  /\ entity_names[1] = <<"a", "_">>
  /\ entity_names[2] = <<>>
  /\ Len(spec) = 1
  /\ spec[1].field_spec.name = "yyyyq"
  /\ MessagesOf(results, entity_names[1]) = {<<>>}
  /\ MessagesOf(results, entity_names[2]) = {MissingValue(1)}

-----------------------------------------------------------------------------
\* C17: an empty segment (its delimiter follows the previous delimiter at
\* once) of a non-freeform position p whose dictionary has no empty id gets
\* the line 'Invalid value "" in position p (field "<field_name>").' and no
\* other line for p, so no 'Missing value' line.
C17_EmptySegmentIsInvalid ==
  Validated =>
    \A p \in 1..Len(spec) : \A c \in Segmented(p) :
      ( /\ c[p] = <<>>
        /\ ~spec[p].field_spec.is_freeform_text
        /\ ~InDictionary(spec[p], <<>>) )
      => /\ RowsReturned
         /\ \A k \in 1..Len(results) :
              /\ LinesFor(results[k].validation_message, p)
                   = <<InvalidValue(p, spec[p].field_spec.name, <<>>)>>
              /\ ~HasLine(results[k].validation_message, MissingValue(p))

C17_Witness ==
  /\ Validated
  /\ results # <<>>
  /\ Len(spec) = 2
  /\ ~spec[2].field_spec.is_freeform_text
  /\ \E c \in Segmented(2) : c[1] # <<>> /\ c[2] = <<>>
  /\ ~HasLine(results[1].validation_message, MissingValue(2))
  /\ HasLine(results[1].validation_message,
             InvalidValue(2, spec[2].field_spec.name, <<>>))

\* C18: for a freeform position p, a segment that is there and not empty
\* gets no line for p, and an empty segment gets exactly the line
\* 'Missing value in position p.' (no 'Invalid value' line).
C18_FreeformSegments ==
  Validated =>
    \A p \in 1..Len(spec) : \A c \in Segmented(p) :
      spec[p].field_spec.is_freeform_text
      => /\ RowsReturned
         /\ \A k \in 1..Len(results) :
              LinesFor(results[k].validation_message, p)
                = IF c[p] = <<>> THEN <<MissingValue(p)>> ELSE <<>>

C18_Witness ==
  /\ Validated
  /\ results # <<>>
  /\ Len(spec) = 2
  /\ spec[1].field_spec.is_freeform_text
  /\ spec[2].field_spec.is_freeform_text
  /\ \E c \in Segmented(2) : c[1] # <<>> /\ c[2] = <<>>
  /\ results[1].validation_message = MissingValue(2)

\* C19: for the empty name, every row the query returns carries the line
\* 'Missing value in position p.', and no other line for p, for every
\* non-freeform position p of the spec; a row is returned whenever no
\* dictionary of the spec is empty.
C19_EmptyNameAllMissing ==
  (Validated /\ entity_names[1] = <<>>) =>
    /\ RowsReturned
    /\ \A k \in 1..Len(results) : \A p \in 1..Len(spec) :
         ~spec[p].field_spec.is_freeform_text
         => LinesFor(results[k].validation_message, p) = <<MissingValue(p)>>

C19_Witness ==
  /\ Validated
  /\ entity_names[1] = <<>>
  /\ Len(spec) = 3
  /\ ~spec[1].field_spec.is_freeform_text
  /\ spec[2].field_spec.is_freeform_text
  /\ ~spec[3].field_spec.is_freeform_text
  /\ results # <<>>
  /\ HasLine(results[1].validation_message, MissingValue(1))
  /\ HasLine(results[1].validation_message, MissingValue(3))

-----------------------------------------------------------------------------
\* the call of a configurator copy ended after the endpoint answered its last
\* fetch with a response of that status and a JSON body without status field
AnsweredWith(code) ==
  /\ version \in {"flags_js_233", "flags_js_509"}
  /\ pc = "done"
  /\ attempts # <<>>
  /\ attempts[Len(attempts)].kind = "response"
  /\ attempts[Len(attempts)].code = code
  /\ attempts[Len(attempts)].body = "json"

\* C20: when the endpoint's answer is a response with a status in [400,599],
\* generateAllConfigData returns false, and for a 200 response it returns
\* true; it does not end with an uncaught exception.
C20_ErrorStatusReturnsFalse ==
  \A code \in {200, HTTP_STATUS_MIN_ERROR_VALUE_, HTTP_STATUS_MAX_ERROR_VALUE_} :
    AnsweredWith(code) =>
      generateAllConfigData(outcome) = (IF IsErrorStatus(code) THEN "false" ELSE "true")

-----------------------------------------------------------------------------
\* the headers of the caller's options object that submitRequest does not
\* assign itself
CallerHeaders == DOMAIN OptionsHeaders(options) \ {"Authorization", "Content-Type"}

CallerPassedPreamble ==
  /\ entry = "caller"
  /\ pc = "done"
  /\ request.built
  /\ ~(outcome.kind = "throw" /\ attempts = <<>>)

C23_NullQueryParameters ==
  (pc # "idle" /\ QueryParametersOf(entry) = "null") =>
    /\ request.built
    /\ request.url = <<"endpoint", "?">>
    /\ outcome # Threw("TypeError")

\* C25: in every copy of submitRequest, a fetch that returned a response
\* (no transport exception) is the last fetch of the call; when the first
\* attempt returns a response, the endpoint gets the request once.
C25_NoFetchAfterResponse ==
  \A i \in 1..Len(attempts) :
    attempts[i].kind = "response" => i = Len(attempts)

\* the text holds the credential of the Authorization header
HoldsCredential(text) == Occurs(text, BearerCredential)

\* C26: in the Sheets add-on, while FLAGS.LOG_REQUESTS is false and
\* FLAGS.LOG_SHEET is empty, submitRequest writes the bearer credential to no
\* console line and to no cell of the spreadsheet.
C26_CredentialNotLogged ==
  (version = "part_003" /\ pc # "idle" /\ ~flags.LOG_REQUESTS /\ flags.LOG_SHEET = "") =>
    /\ \A i \in 1..Len(console) : ~HoldsCredential(console[i])
    /\ \A cell \in DOMAIN written : ~HoldsCredential(written[cell])

\* C30: submitRequest sleeps between attempts only: a call sleeps at most
\* NUM_RETRIES - 1 times, and not after its last attempt failed.
C30_SleepOnlyBetweenAttempts ==
  /\ Len(sleeps) <= NUM_RETRIES - 1
  /\ Len(sleeps) < NUM_RETRIES => Len(sleeps) <= Len(attempts)
  /\ (Len(attempts) = NUM_RETRIES /\ attempts[NUM_RETRIES].kind = "exception")
       => Len(sleeps) < Len(attempts)

-----------------------------------------------------------------------------
\* the value rows of a sheet (1 is the first value row) whose filter cell is
\* a checked box or a text
KeptRows(sht) ==
  {q \in 1..Len(sht.filterColumn) :
     sht.filterColumn[q] \notin {JsBoolean(FALSE), JsString("")}}

\* the keys of the key row's cells that are not empty
NonEmptyKeys(sht) == {sht.keyRow[c] : c \in DOMAIN sht.keyRow} \ {""}

\* C24: the data list of the payload generateAllConfigData builds holds three
\* entity batches, TaxonomyField, TaxonomySpec, TaxonomyDimension in this
\* order; a batch holds one object for each value row of its sheet whose
\* filter cell is truthy, in the order of the rows, and an object has an
\* entry, read from its row under that key, for each key of a non-empty cell
\* of the key row and no other entry.
C24_OverwritePayload ==
  payload.built =>
    /\ Len(payload.data) = 3
    /\ <<payload.data[1].type, payload.data[2].type, payload.data[3].type>>
         = <<"TaxonomyField", "TaxonomySpec", "TaxonomyDimension">>
    /\ \A i \in 1..3 :
         LET sht == sheets[OBJECTS_TO_GENERATE_[i].sheet]
             batch == payload.data[i].data
         IN /\ Len(batch) = Cardinality(KeptRows(sht))
            /\ \A q \in KeptRows(sht) :
                 LET j == Cardinality({x \in KeptRows(sht) : x <= q})
                 IN /\ DOMAIN batch[j] = NonEmptyKeys(sht)
                    /\ \A key \in DOMAIN batch[j] :
                         /\ batch[j][key][1] = 2 + q
                         /\ sht.keyRow[batch[j][key][2]] = key

C24_Witness ==
  /\ payload.built
  /\ sheets["Taxonomy Fields"].filterColumn
       = <<JsBoolean(TRUE), JsBoolean(FALSE), JsBoolean(TRUE)>>
  /\ sheets["Taxonomy Fields"].keyRow[2] = ""
  /\ sheets["Taxonomy Specs"].filterColumn = <<JsBoolean(TRUE), JsString("x")>>
  /\ Len(payload.data[1].data) = 2
  /\ DOMAIN payload.data[1].data[2] = {"name", "k3", "k4", "k5"}
  /\ payload.data[1].data[2]["name"] = <<5, 1>>
  /\ Len(payload.data[2].data) = 2

\* the names of the specs stored last, as getProperty returns them
LastStoredNames == [i \in DOMAIN lastSpecs |-> JsString(lastSpecs[i].name)]

\* C29: after any sequence of storeSpecNamesAsUserProperties calls,
\* getSpecNamesFromUserProperties returns the names of the list stored last,
\* in its order and of its length, also when a list stored before was longer
\* and when the last list is empty.
C29_LatestSpecNamesReturned ==
  /\ getSpecNamesFromUserProperties(userProperties) = LastStoredNames
  /\ specNames.built => specNames.names = LastStoredNames

C29_Witness ==
  /\ specNames.built
  /\ Len(lastSpecs) = 1
  /\ PropertyKey("1") \in DOMAIN userProperties
  /\ PropertyKey("2") \in DOMAIN userProperties
  /\ userProperties[PropertyKey("_count")] = "1"
  /\ specNames.names = <<JsString(lastSpecs[1].name)>>

-----------------------------------------------------------------------------
\* how often a name occurs in a list of names or of rows
TimesIn(names, name) == Cardinality({k \in 1..Len(names) : names[k] = name})

RowsOfName(rows, name) == Cardinality({k \in 1..Len(rows) : rows[k].name = name})

\* C27: whatever the dictionaries hold, the query returns exactly one row for
\* each name of the batch: no name is left out (also when a dictionary is
\* empty) and none comes twice (also when a dictionary holds an id twice or
\* several rows).
C27_OneRowPerName ==
  Validated =>
    /\ Len(results) = Len(entity_names)
    /\ \A k \in 1..Len(entity_names) :
         RowsOfName(results, entity_names[k]) = TimesIn(entity_names, entity_names[k])

\* the result is a failure to its callback: a validation with a message, an
\* update whose response is not 'Updated.'
FailingResult(result) ==
  IF handler = "validateNamesInCells" THEN WithMessage(result) ELSE NotUpdated(result)

\* C28: once the response has come, the callback marks a cell red only if the
\* results hold a failing result for that cell; when a cell or a whole row of
\* the selection has no result, the callback still returns normally and
\* leaves that cell without the red mark.
C28_RedOnlyForFailingResult ==
  (apc # "idle" /\ matrixed.called) =>
    /\ \A r \in 1..Len(backgrounds) : \A k \in 1..Len(backgrounds[r]) :
         backgrounds[r][k] = "red" =>
           \E i \in 1..Len(flat_results) :
             /\ flat_results[i].row = r - 1
             /\ ColumnOf(flat_results[i]) = k - 1
             /\ FailingResult(flat_results[i])
    /\ (AskedCells \ AnsweredCells # {}) =>
         /\ apc = "returned"
         /\ \A rc \in AskedCells \ AnsweredCells : backgrounds[rc[1] + 1][rc[2] + 1] = "none"

====
